---------------------------- MODULE Spec2Model ----------------------------
(***************************************************************************)
(* A model of the 2D physics simulator: the physics engine (physics.rs),   *)
(* the Skia renderer's view region and canvas transform (renderer.rs), the *)
(* Simulation controller (simulation.rs) and the key handler of the        *)
(* window loop (main.rs).                                                  *)
(*                                                                         *)
(* f32 values are modelled as binary floating-point numbers of reduced     *)
(* size: a value is an integer count of quanta of 2^-FracBits, and every   *)
(* arithmetic result is rounded to MantBits significant bits, to nearest,  *)
(* ties to even, as IEEE 754 does.  Infinities and NaN are not modelled:   *)
(* the bounds keep every value far from overflow.                          *)
(***************************************************************************)
EXTENDS Integers, Sequences, FiniteSets, TLC

\* ------------------------------------------------------------------ bounds

\* Significant bits of a modelled f32 (the real format has 24).
MantBits == 8
\* Fractional bits of the smallest quantum (the real format reaches 2^-149).
FracBits == 4
\* Calls of add_object / add_object_with_model* a behaviour may make.
MaxAdds == 3
\* Bodies a behaviour of the physics engine on its own may add.
MaxBodies == 2
\* Calls of update a behaviour may make.
MaxUpdates == 3
\* Calls of update a behaviour of the frame loop may make.
MaxViewUpdates == 2
\* Calls of update a behaviour of the frame loop may make while it zooms.
MaxZoomUpdates == 3

\* ------------------------------------------------------------ f32 arithmetic

RECURSIVE Pow2Nat(_)
Pow2Nat(n) == IF n <= 0 THEN 1 ELSE 2 * Pow2Nat(n - 1)

\* 1.0_f32 in quanta.
One == Pow2Nat(FracBits)

Abs(n) == IF n < 0 THEN -n ELSE n

\* The spacing of the representable values at magnitude q (q in quanta).
RECURSIVE UlpAt(_)
UlpAt(q) == IF q < Pow2Nat(MantBits) THEN 1 ELSE 2 * UlpAt(q \div 2)

\* The non-negative rational num/den rounded to the nearest integer, ties to even.
RoundNearestEven(num, den) ==
    LET f == num \div den
        r == num % den
    IN  IF 2 * r < den THEN f
        ELSE IF 2 * r > den THEN f + 1
        ELSE IF f % 2 = 0 THEN f ELSE f + 1

\* The rational num/den (in quanta, den > 0) rounded to a representable value.
RoundQ(num, den) ==
    LET a == Abs(num)
        u == UlpAt(a \div den)
        m == RoundNearestEven(a, den * u) * u
    IN  IF num < 0 THEN -m ELSE m

\* Whether num/den is representable, so that RoundQ changes nothing.
ExactQ(num, den) == num % den = 0 /\ RoundQ(num, den) * den = num

FAdd(a, b) == RoundQ(a + b, 1)
FSub(a, b) == RoundQ(a - b, 1)
FMul(a, b) == RoundQ(a * b, One)
FDiv(a, b) == IF b < 0 THEN RoundQ(-(a * One), -b) ELSE RoundQ(a * One, b)

AddExact(a, b) == ExactQ(a + b, 1)
SubExact(a, b) == ExactQ(a - b, 1)
MulExact(a, b) == ExactQ(a * b, One)
DivExact(a, b) == IF b < 0 THEN ExactQ(-(a * One), -b) ELSE ExactQ(a * One, b)

\* 2^(j/32) for j = 0..31, scaled by 2^20 and rounded: the fractional powers
\* of two that a speed of one unit held for a whole number of ticks can ask for.
Exp2Table ==
    << 1048576, 1071537, 1095000, 1118978, 1143480, 1168519, 1194106, 1220254,
       1246974, 1274279, 1302182, 1330696, 1359835, 1389611, 1420040, 1451135,
       1482910, 1515382, 1548564, 1582474, 1617125, 1652536, 1688722, 1725700,
       1763488, 1802103, 1841564, 1881889, 1923097, 1965207, 2008240, 2052214 >>
Exp2Scale == Pow2Nat(20)

\* 2_f32.powf(z), correctly rounded, for z a multiple of 1/32 (every z when
\* FracBits <= 5).
Powf2(z) ==
    LET j == (z * 32) \div One
        q == j \div 32
        t == Exp2Table[(j % 32) + 1]
    IN  IF q + FracBits >= 0
        THEN RoundQ(t * Pow2Nat(q + FracBits), Exp2Scale)
        ELSE RoundQ(t, Exp2Scale * Pow2Nat(-(q + FracBits)))

\* Whether 2^z is a power of two the format holds exactly.
Powf2Exact(z) == z % One = 0 /\ z \div One >= -FracBits

\* An integer literal as an f32.
F32(n) == RoundQ(n * One, 1)

\* Duration::as_secs_f32: a Duration is a count of ticks of 2^-FracBits s.
AsSecsF32(dt) == RoundQ(dt, 1)

Min(a, b) == IF a <= b THEN a ELSE b

\* ------------------------------------------------------------------- state

VARIABLES
    objects,             \* Simulation.objects: the Objects, in insertion order
    object_uid_counter,  \* Simulation.object_uid_counter
    dt_accum,            \* Simulation.dt_accum
    inputs,              \* Simulation.inputs
    physics,             \* PhysicsEngine.objects: the Bodies, body k at index k + 1
    view_region,         \* SkiaRenderer.view_region: <<p1, p2>>
    surface_dims,        \* the pixel dimensions of SkiaRenderer.surface
    matrix,              \* the canvas matrix of SkiaRenderer.surface, as the calls
                         \* that built it since the last reset
    should_close,        \* the window's close flag
    held,                \* the keys that are down (the keyboard, not the program)
    panicked,            \* an unwrap of None has aborted the program
    issued,              \* history: the Object ids handed out, in call order
    call,                \* history: the last call and, but for a key event, its argument
    hist,                \* history: the last two calls of Simulation::update
    updates,             \* history: the number of update calls
    elapsed,             \* history: the exact sum of the dt of all updates, in ticks
    motion0              \* history: per body, where and when its motion was last
                         \* set and whether an update has rounded since

vars == <<objects, object_uid_counter, dt_accum, inputs, physics, view_region,
          surface_dims, matrix, should_close, held, panicked, issued, call,
          hist, updates, elapsed, motion0>>

simVars == <<objects, object_uid_counter, dt_accum, inputs>>
rendererVars == <<view_region, surface_dims, matrix>>
windowVars == <<should_close, held>>

\* ---------------------------------------------------------- physics engine

\* Option<T>: None is <<>>, Some(v) is <<v>>.
None == <<>>
Some(v) == <<v>>

\* A Body as add_object builds it: Pose::default(), Dynamics::default().
NewBody(id, circle) ==
    [id       |-> id,
     pose     |-> [position |-> <<0, 0>>, orientation |-> 0],
     dynamics |-> [velocity |-> <<0, 0>>],
     circle   |-> circle]

\* PhysicsEngine::new
PhysicsEngineNew == <<>>

\* PhysicsEngine::get_object and get_object_mut: Vec::get(id.0).
GetObject(bodies, id) ==
    IF id < Len(bodies) THEN Some(bodies[id + 1]) ELSE None

\* A slip: the id is read after the push, so it is the new length.
PhysicsAddObjectIdAfterPush(bodies, circle) ==
    Append(bodies, NewBody(Len(bodies) + 1, circle))

\* PhysicsEngine::add_object: the new Body's id is the length before the push.
PhysicsAddObject(bodies, circle) ==
    Append(bodies, NewBody(Len(bodies), circle))

\* A slip: the y axis integrates velocity.0.
IntegrateUsesXVelocity(body, dt) ==
    [body EXCEPT !.pose.position =
        <<FAdd(@[1], FMul(body.dynamics.velocity[1], AsSecsF32(dt))),
          FAdd(@[2], FMul(body.dynamics.velocity[1], AsSecsF32(dt)))>>]

\* The body of the loop of PhysicsEngine::update.
Integrate(body, dt) ==
    [body EXCEPT !.pose.position =
        <<FAdd(@[1], FMul(body.dynamics.velocity[1], AsSecsF32(dt))),
          FAdd(@[2], FMul(body.dynamics.velocity[2], AsSecsF32(dt)))>>]

\* PhysicsEngine::update
PhysicsUpdate(bodies, dt) ==
    [k \in 1..Len(bodies) |-> Integrate(bodies[k], dt)]

\* History: whether update(dt) moves the body without rounding anywhere.
IntegrateExact(body, dt) ==
    /\ AsSecsF32(dt) = dt
    /\ \A a \in 1..2 :
          /\ MulExact(body.dynamics.velocity[a], dt)
          /\ AddExact(body.pose.position[a], FMul(body.dynamics.velocity[a], dt))

\* History: a body whose pose or velocity was just written.
MotionSet(position) == [position |-> position, since |-> elapsed, exact |-> TRUE]

\* History: motion0 after update(dt).
MotionAfterUpdate(bodies, dt) ==
    [k \in 1..Len(bodies) |->
        [motion0[k] EXCEPT !.exact = @ /\ IntegrateExact(bodies[k], dt)]]

\* ---------------------------------------------------------------- renderer

\* The canvas calls of set_physics_region after reset_matrix.  A scale factor
\* is kept as the pair <<numerator, denominator>> of its division, so a zero
\* width or height of the region stays visible as a zero denominator.
RegionMatrix(dims, p1, p2) ==
    LET surface_width_f  == F32(dims[1])
        surface_height_f == F32(dims[2])
    IN  << [op |-> "scale", x |-> <<One, One>>, y |-> <<-One, One>>],
           [op |-> "translate", x |-> <<0, 1>>, y |-> <<-surface_height_f, 1>>],
           [op |-> "scale", x |-> <<surface_width_f, FSub(p2[1], p1[1])>>,
                            y |-> <<surface_height_f, FSub(p2[2], p1[2])>>],
           [op |-> "translate", x |-> <<-p1[1], 1>>, y |-> <<-p1[2], 1>>] >>

\* The matrix of the canvas of a surface create_surface has just built.
IdentityMatrix == <<>>

\* The dimensions as SkiaRenderer::new hands them to set_physics_region.
SurfaceDimsF(dims) == <<F32(dims[1]), F32(dims[2])>>

\* ---------------------------------------------------------------- simulation

\* Inputs::default
InputsDefault ==
    [view_region_scroll_speed            |-> <<0, 0>>,
     view_region_scroll_speed_multiplier |-> One,
     view_region_zoom_speed              |-> 0,
     view_region_zoom_speed_multiplier   |-> One]

\* The condition of the if of Simulation::update.
InputActive(inp) ==
    \/ inp.view_region_scroll_speed[1] # 0
    \/ inp.view_region_scroll_speed[2] # 0
    \/ inp.view_region_zoom_speed # 0

\* delta_x and delta_y of Simulation::update.
ScrollDelta(inp, dt) ==
    <<FMul(FMul(inp.view_region_scroll_speed[1], AsSecsF32(dt)),
           inp.view_region_scroll_speed_multiplier),
      FMul(FMul(inp.view_region_scroll_speed[2], AsSecsF32(dt)),
           inp.view_region_scroll_speed_multiplier)>>

\* z_speed of Simulation::update.
ZSpeed(inp, dt) ==
    FMul(FMul(inp.view_region_zoom_speed, AsSecsF32(dt)),
         inp.view_region_zoom_speed_multiplier)

\* A slip: = where the code has +=.
TranslateAssigns(region, delta) ==
    <<<<delta[1], delta[2]>>, <<delta[1], delta[2]>>>>

\* p1 += delta; p2 += delta.
Translate(region, delta) ==
    <<<<FAdd(region[1][1], delta[1]), FAdd(region[1][2], delta[2])>>,
      <<FAdd(region[2][1], delta[1]), FAdd(region[2][2], delta[2])>>>>

\* A slip: the sum of the corners is not halved.
CenterNotHalved(a, b) == FAdd(a, b)

\* One coordinate of the center of the view region.
Center(a, b) == FDiv(FAdd(a, b), F32(2))

\* delta_size of Simulation::update.
DeltaSize(z_speed) == FDiv(One, Powf2(z_speed))

\* One coordinate scaled around the center.
ScaleCoord(c, p, delta_size) == FAdd(c, FMul(FSub(p, c), delta_size))

\* The view region scaled around its center.
ScaleAboutCenter(region, z_speed) ==
    LET delta_size == DeltaSize(z_speed)
        cx == Center(region[1][1], region[2][1])
        cy == Center(region[1][2], region[2][2])
    IN  <<<<ScaleCoord(cx, region[1][1], delta_size),
            ScaleCoord(cy, region[1][2], delta_size)>>,
          <<ScaleCoord(cx, region[2][1], delta_size),
            ScaleCoord(cy, region[2][2], delta_size)>>>>

\* The region Simulation::update installs when an input is non-zero.
NavRegion(region, delta, z_speed) ==
    ScaleAboutCenter(Translate(region, delta), z_speed)

\* The view region after Simulation::update.
ViewAfterUpdate(region, inp, dt) ==
    IF InputActive(inp)
    THEN NavRegion(region, ScrollDelta(inp, dt), ZSpeed(inp, dt))
    ELSE region

\* A slip: the physics step moved inside the if.
BodiesAfterUpdateInsideIf(bodies, inp, dt) ==
    IF InputActive(inp) THEN PhysicsUpdate(bodies, dt) ELSE bodies

\* The bodies after Simulation::update: self.physics.update(delta_time).
BodiesAfterUpdate(bodies, inp, dt) == PhysicsUpdate(bodies, dt)

\* History: whether Translate rounds nowhere.
TranslateExact(region, delta) ==
    \A c \in 1..2, a \in 1..2 : AddExact(region[c][a], delta[a])

\* History: whether ScaleAboutCenter rounds nowhere.
ScaleExact(region, z_speed) ==
    /\ Powf2Exact(z_speed)
    /\ DivExact(One, Powf2(z_speed))
    /\ \A a \in 1..2 :
          LET s == FAdd(region[1][a], region[2][a])
              c == Center(region[1][a], region[2][a])
          IN  /\ AddExact(region[1][a], region[2][a])
              /\ DivExact(s, F32(2))
              /\ \A k \in 1..2 :
                    /\ SubExact(region[k][a], c)
                    /\ MulExact(FSub(region[k][a], c), DeltaSize(z_speed))
                    /\ AddExact(c, FMul(FSub(region[k][a], c), DeltaSize(z_speed)))

\* History: whether NavRegion rounds nowhere.
NavExact(region, delta, z_speed) ==
    /\ TranslateExact(region, delta)
    /\ ScaleExact(Translate(region, delta), z_speed)

\* The physics footprint add_object_with_model_at_pos derives from a model.
Footprint(model) ==
    IF model.kind = "Circle"
    THEN [origin |-> <<0, 0>>, radius |-> model.radius]
    ELSE [origin |-> <<FAdd(model.origin[1], FDiv(model.dimensions[1], F32(2))),
                       FAdd(model.origin[2], FDiv(model.dimensions[2], F32(2)))>>,
          radius |-> Min(FDiv(model.dimensions[1], F32(2)),
                         FDiv(model.dimensions[2], F32(2)))]

\* A slip: the last body is taken again when there is one.
BodiesAfterAddReusesLast(bodies, model, position) ==
    IF Len(bodies) > 0
    THEN [bodies EXCEPT ![Len(bodies)].pose.position = position]
    ELSE LET added == PhysicsAddObject(bodies, Footprint(model))
         IN  [added EXCEPT ![Len(added)].pose.position = position]

\* The bodies after add_object_with_model_at_pos.  The source writes
\* body.motion.position; Body holds its position in pose.
BodiesAfterAdd(bodies, model, position) ==
    LET added == PhysicsAddObject(bodies, Footprint(model))
    IN  [added EXCEPT ![Len(added)].pose.position = position]

\* A slip: the id is the length of the list, not the counter.
ObjectsAfterAddIdFromLen(objs, counter, model, body) ==
    Append(objs, [graphics_model |-> model, physics_body |-> body, id |-> Len(objs)])

\* The objects after add_object_with_model_at_pos.
ObjectsAfterAdd(objs, counter, model, body) ==
    Append(objs, [graphics_model |-> model, physics_body |-> body, id |-> counter])

\* A slip: the predicate of retain is inverted.
ObjectsAfterRemoveInverted(objs, id) ==
    SelectSeq(objs, LAMBDA o : o.id = id)

\* The objects after remove_object: retain(|object| object.id != id).
ObjectsAfterRemove(objs, id) ==
    SelectSeq(objs, LAMBDA o : o.id # id)

\* A slip: the removed Object's body is dropped from the engine as well.
BodiesAfterRemoveFreesBody(bodies, objs, id) ==
    LET gone == {objs[k].physics_body : k \in {j \in 1..Len(objs) : objs[j].id = id}}
    IN  SelectSeq(bodies, LAMBDA b : b.id \notin gone)

\* The bodies after remove_object: the engine is not touched.
BodiesAfterRemove(bodies, objs, id) == bodies

\* Whether draw_all unwraps a None.
DrawAllPanics(objs, bodies) ==
    \E k \in 1..Len(objs) : GetObject(bodies, objs[k].physics_body) = None

\* ----------------------------------------------------- actions: Simulation

\* Simulation::add_object_with_model_at_pos
AddObjectWithModelAtPos(model, position) ==
    /\ ~panicked
    /\ physics' = BodiesAfterAdd(physics, model, position)
    /\ objects' = ObjectsAfterAdd(objects, object_uid_counter, model,
                                  physics'[Len(physics')].id)
    /\ object_uid_counter' = object_uid_counter + 1
    /\ issued' = Append(issued, objects'[Len(objects')].id)
    /\ motion0' = Append(motion0, MotionSet(position))
    /\ call' = [op |-> "add_object_with_model_at_pos", arg |-> objects'[Len(objects')].id]
    /\ UNCHANGED <<dt_accum, inputs, rendererVars, windowVars, panicked, hist,
                   updates, elapsed>>

\* Simulation::add_object_with_model
AddObjectWithModel(model) ==
    AddObjectWithModelAtPos(model, <<0, 0>>)

\* Simulation::remove_object
RemoveObject(id) ==
    /\ ~panicked
    /\ objects' = ObjectsAfterRemove(objects, id)
    /\ physics' = BodiesAfterRemove(physics, objects, id)
    /\ call' = [op |-> "remove_object", arg |-> id]
    /\ UNCHANGED <<object_uid_counter, dt_accum, inputs, rendererVars, windowVars,
                   panicked, issued, hist, updates, elapsed, motion0>>

\* History: the record of one call of Simulation::update.
UpdateRecord(dt) ==
    [before |-> view_region,
     active |-> InputActive(inputs),
     speed  |-> inputs.view_region_scroll_speed,
     zoom   |-> inputs.view_region_zoom_speed,
     dt     |-> dt,
     delta  |-> ScrollDelta(inputs, dt),
     zs     |-> ZSpeed(inputs, dt)]

\* Simulation::update
Update(dt) ==
    /\ ~panicked
    /\ dt_accum' = FAdd(dt_accum, AsSecsF32(dt))
    /\ view_region' = ViewAfterUpdate(view_region, inputs, dt)
    /\ matrix' = IF InputActive(inputs)
                 THEN RegionMatrix(surface_dims, view_region'[1], view_region'[2])
                 ELSE matrix
    /\ physics' = BodiesAfterUpdate(physics, inputs, dt)
    /\ motion0' = MotionAfterUpdate(physics, dt)
    /\ elapsed' = elapsed + dt
    /\ updates' = updates + 1
    /\ hist' = IF Len(hist) < 2 THEN Append(hist, UpdateRecord(dt))
               ELSE <<hist[2], UpdateRecord(dt)>>
    /\ call' = [op |-> "update", arg |-> dt]
    /\ UNCHANGED <<objects, object_uid_counter, inputs, surface_dims, windowVars,
                   panicked, issued>>

\* Simulation::next_frame: begin_new_frame, draw_all, end_frame.  What is drawn
\* is not modelled, only whether draw_all's unwrap aborts.
NextFrame ==
    /\ ~panicked
    /\ panicked' = DrawAllPanics(objects, physics)
    /\ call' = [op |-> "next_frame", arg |-> 0]
    /\ UNCHANGED <<simVars, physics, rendererVars, windowVars, issued, hist,
                   updates, elapsed, motion0>>

\* ------------------------------------------------- actions: PhysicsEngine

\* PhysicsEngine::add_object, called on the engine itself.
EngineAddObject(circle) ==
    /\ ~panicked
    /\ physics' = PhysicsAddObject(physics, circle)
    /\ motion0' = Append(motion0, MotionSet(<<0, 0>>))
    /\ call' = [op |-> "physics.add_object", arg |-> physics'[Len(physics')].id]
    /\ UNCHANGED <<simVars, rendererVars, windowVars, panicked, issued, hist,
                   updates, elapsed>>

\* get_object_mut(id).unwrap() and a write of the body's pose and velocity, as
\* add_object_with_model_at_pos does for the position and main for the
\* velocity of its first circle.  A BodyId is built by the engine alone, so id
\* is one it has handed out; each body is given its motion once.
EngineSetMotion(id, position, velocity) ==
    /\ ~panicked
    /\ GetObject(physics, id) # None
    /\ physics[id + 1].pose.position = <<0, 0>>
    /\ physics[id + 1].dynamics.velocity = <<0, 0>>
    /\ physics' = [physics EXCEPT ![id + 1].pose.position = position,
                                  ![id + 1].dynamics.velocity = velocity]
    /\ motion0' = [motion0 EXCEPT ![id + 1] = MotionSet(position)]
    /\ call' = [op |-> "physics.get_object_mut", arg |-> id]
    /\ UNCHANGED <<simVars, rendererVars, windowVars, panicked, issued, hist,
                   updates, elapsed>>

\* PhysicsEngine::update, called on the engine itself.
EngineUpdate(dt) ==
    /\ ~panicked
    /\ physics' = PhysicsUpdate(physics, dt)
    /\ motion0' = MotionAfterUpdate(physics, dt)
    /\ elapsed' = elapsed + dt
    /\ updates' = updates + 1
    /\ call' = [op |-> "physics.update", arg |-> dt]
    /\ UNCHANGED <<simVars, rendererVars, windowVars, panicked, issued, hist>>

\* ------------------------------------------------------- actions: renderer

\* SkiaRenderer::set_physics_region
SetPhysicsRegion(p1, p2) ==
    /\ ~panicked
    /\ matrix' = RegionMatrix(surface_dims, p1, p2)
    /\ view_region' = <<p1, p2>>
    /\ call' = [op |-> "set_physics_region", arg |-> <<p1, p2>>]
    /\ UNCHANGED <<simVars, physics, surface_dims, windowVars, panicked, issued,
                   hist, updates, elapsed, motion0>>

\* SkiaRenderer::resize_surface: the dimensions are stored and the surface is
\* built anew; set_physics_region is not called.
ResizeSurface(dims) ==
    /\ ~panicked
    /\ surface_dims' = dims
    /\ matrix' = IdentityMatrix
    /\ call' = [op |-> "resize_surface", arg |-> dims]
    /\ UNCHANGED <<simVars, physics, view_region, windowVars, panicked, issued,
                   hist, updates, elapsed, motion0>>

\* --------------------------------------------------------- actions: window

\* The view region main installs, and the Kp5 key restores.
DefaultRegion == <<<<0, 0>>, <<F32(100), F32(100)>>>>

\* The inputs after handle_window_event, arm by arm.
InputsAfterEvent(inp, key, action) ==
    CASE key = "Kp9" /\ action = "Press"   -> [inp EXCEPT !.view_region_zoom_speed = One]
      [] key = "Kp7" /\ action = "Press"   -> [inp EXCEPT !.view_region_zoom_speed = -One]
      [] key = "Kp9" /\ action = "Release" -> [inp EXCEPT !.view_region_zoom_speed = 0]
      [] key = "Kp7" /\ action = "Release" -> [inp EXCEPT !.view_region_zoom_speed = 0]
      [] key = "Kp4" /\ action = "Press"   -> [inp EXCEPT !.view_region_scroll_speed[1] = -One]
      [] key = "Kp6" /\ action = "Press"   -> [inp EXCEPT !.view_region_scroll_speed[1] = One]
      [] key = "Kp8" /\ action = "Press"   -> [inp EXCEPT !.view_region_scroll_speed[2] = One]
      [] key = "Kp2" /\ action = "Press"   -> [inp EXCEPT !.view_region_scroll_speed[2] = -One]
      [] key = "Kp4" /\ action = "Release" -> [inp EXCEPT !.view_region_scroll_speed[1] = 0]
      [] key = "Kp6" /\ action = "Release" -> [inp EXCEPT !.view_region_scroll_speed[1] = 0]
      [] key = "Kp8" /\ action = "Release" -> [inp EXCEPT !.view_region_scroll_speed[2] = 0]
      [] key = "Kp2" /\ action = "Release" -> [inp EXCEPT !.view_region_scroll_speed[2] = 0]
      [] OTHER -> inp

\* The keyboard: a key that is up can be pressed; a key that is down repeats
\* or is released.
KeyboardAfter(down, key, action) ==
    CASE action = "Press"   -> down \cup {key}
      [] action = "Release" -> down \ {key}
      [] OTHER              -> down

\* handle_window_event on a key event the keyboard can produce.
HandleWindowEvent(key, action) ==
    /\ ~panicked
    /\ IF action = "Press" THEN key \notin held ELSE key \in held
    /\ held' = KeyboardAfter(held, key, action)
    /\ should_close' = (should_close \/ (key = "Escape" /\ action = "Press"))
    /\ inputs' = InputsAfterEvent(inputs, key, action)
    /\ IF key = "Kp5" /\ action = "Release"
       THEN /\ view_region' = DefaultRegion
            /\ matrix' = RegionMatrix(surface_dims, DefaultRegion[1], DefaultRegion[2])
       ELSE UNCHANGED <<view_region, matrix>>
    /\ call' = [op |-> "handle_window_event", arg |-> 0]
    /\ UNCHANGED <<objects, object_uid_counter, dt_accum, physics, surface_dims,
                   panicked, issued, hist, updates, elapsed, motion0>>

\* ------------------------------------------------------------ initial states

\* The window create_window opens.
WindowDims == <<1024, 1024>>

\* The models main draws.
BackgroundRectangle ==
    [kind |-> "Rectangle", origin |-> <<0, 0>>,
     dimensions |-> <<F32(100), F32(100)>>, color |-> "rgb(8, 0, 22)"]
WhiteCircle ==
    [kind |-> "Circle", origin |-> <<0, 0>>, radius |-> F32(2), color |-> "WHITE"]

\* Simulation::new(SkiaRenderer::new(properties)) for a surface of dims.
InitSimulation(dims) ==
    /\ objects = <<>>
    /\ object_uid_counter = 0
    /\ dt_accum = 0
    /\ inputs = InputsDefault
    /\ physics = PhysicsEngineNew
    /\ view_region = <<<<0, 0>>, SurfaceDimsF(dims)>>
    /\ surface_dims = dims
    /\ matrix = RegionMatrix(dims, <<0, 0>>, SurfaceDimsF(dims))
    /\ should_close = FALSE
    /\ held = {}
    /\ panicked = FALSE
    /\ issued = <<>>
    /\ call = [op |-> "new", arg |-> dims]
    /\ hist = <<>>
    /\ updates = 0
    /\ elapsed = 0
    /\ motion0 = <<>>

\* main, up to the frame loop: the region, the scroll multiplier, the four
\* objects and the velocity of the first circle.
MainPositions == <<<<0, 0>>, <<F32(25), F32(25)>>, <<F32(25), F32(75)>>, <<F32(50), F32(25)>>>>
MainModels == <<BackgroundRectangle, WhiteCircle, WhiteCircle, WhiteCircle>>

RECURSIVE MainBodies(_)
MainBodies(n) ==
    IF n = 0 THEN PhysicsEngineNew
    ELSE BodiesAfterAdd(MainBodies(n - 1), MainModels[n], MainPositions[n])

RECURSIVE MainObjects(_)
MainObjects(n) ==
    IF n = 0 THEN <<>>
    ELSE ObjectsAfterAdd(MainObjects(n - 1), n - 1, MainModels[n], MainBodies(n)[n].id)

InitMain ==
    /\ objects = MainObjects(4)
    /\ object_uid_counter = 4
    /\ dt_accum = 0
    /\ inputs = [InputsDefault EXCEPT !.view_region_scroll_speed_multiplier = F32(50)]
    /\ physics = [MainBodies(4) EXCEPT ![2].dynamics.velocity = <<0, One>>]
    /\ view_region = DefaultRegion
    /\ surface_dims = WindowDims
    /\ matrix = RegionMatrix(WindowDims, DefaultRegion[1], DefaultRegion[2])
    /\ should_close = FALSE
    /\ held = {}
    /\ panicked = FALSE
    /\ issued = <<0, 1, 2, 3>>
    /\ call = [op |-> "main", arg |-> 0]
    /\ hist = <<>>
    /\ updates = 0
    /\ elapsed = 0
    /\ motion0 = [k \in 1..4 |-> [position |-> MainPositions[k], since |-> 0, exact |-> TRUE]]

\* ------------------------------------------------------------ specifications

\* The inputs the specifications draw from.
Models == {[BackgroundRectangle EXCEPT !.dimensions = <<F32(4), F32(2)>>]}
Positions == {<<F32(25), F32(25)>>}
Durations == {One}
Circles == {[origin |-> <<0, 0>>, radius |-> F32(2)]}
EnginePositions == {<<F32(25), F32(25)>>}
EngineVelocities == {<<0, One>>, <<One, -One>>}
EngineDurations == {0, 1, 5 * One}
ViewKeys == {"Kp9", "Kp7", "Kp6"}
ViewDurations == {1, One \div 2, One}
Keys == {"Escape", "Kp9", "Kp7", "Kp4", "Kp6", "Kp8", "Kp2", "Kp5", "Space"}
Actions == {"Press", "Release", "Repeat"}
ZoomKeys == {"Kp9", "Kp7", "Kp5"}
ZoomDurations == {One, 4 * One}
SurfaceSizes == {<<4, 4>>, <<8, 4>>, <<4, 8>>, <<8, 8>>}
Corners1 == {<<0, 0>>, <<One, 0>>, <<0, One>>}
Corners2 == {<<F32(2), F32(2)>>, <<F32(4), F32(2)>>, <<F32(2), F32(4)>>, <<F32(4), F32(4)>>}

\* The Simulation's objects: added, removed, updated and drawn.
Init == InitSimulation(WindowDims)
Next ==
    \/ \E m \in Models : Len(issued) < MaxAdds /\ AddObjectWithModel(m)
    \/ \E p \in Positions : Len(issued) < MaxAdds /\ AddObjectWithModelAtPos(WhiteCircle, p)
    \/ \E id \in 0..object_uid_counter : RemoveObject(id)
    \/ \E dt \in Durations : updates < MaxUpdates /\ Update(dt)
    \/ NextFrame
Spec == Init /\ [][Next]_vars

\* The physics engine on its own.
NextPhysics ==
    \/ \E c \in Circles : Len(physics) < MaxBodies /\ EngineAddObject(c)
    \/ \E id \in 0..(MaxBodies - 1), p \in EnginePositions, v \in EngineVelocities :
          EngineSetMotion(id, p, v)
    \/ \E dt \in EngineDurations : updates < MaxUpdates /\ EngineUpdate(dt)
SpecPhysics == Init /\ [][NextPhysics]_vars

\* The frame loop of main: key events and updates.
NextView ==
    \/ \E k \in ViewKeys, a \in Actions : HandleWindowEvent(k, a)
    \/ \E dt \in ViewDurations : updates < MaxViewUpdates /\ Update(dt)
SpecView == InitMain /\ [][NextView]_vars

\* The frame loop of main while the view is zoomed and reset.
NextZoom ==
    \/ \E k \in ZoomKeys, a \in Actions : HandleWindowEvent(k, a)
    \/ \E dt \in ZoomDurations : updates < MaxZoomUpdates /\ Update(dt)
SpecZoom == InitMain /\ [][NextZoom]_vars

\* The key handler under every key sequence the keyboard can produce.
NextKeys == \E k \in Keys, a \in Actions : HandleWindowEvent(k, a)
SpecKeys == InitMain /\ [][NextKeys]_vars

\* The renderer on its own.
InitRenderer == \E dims \in SurfaceSizes : InitSimulation(dims)
NextRenderer ==
    \/ \E p1 \in Corners1, p2 \in Corners2 : SetPhysicsRegion(p1, p2)
    \/ \E dims \in SurfaceSizes : ResizeSurface(dims)
SpecRenderer == InitRenderer /\ [][NextRenderer]_vars

\* -------------------------------------------------------------------- claims

\* C1: the Object ids handed out by add_object_with_model and
\* add_object_with_model_at_pos start at 0, are strictly increasing in call
\* order and pairwise distinct, and the id of a removed object is never handed
\* out again: every live id was handed out exactly once, and an id that is no
\* longer live was handed out before every id handed out after its removal.
C1_IdsIncreasing ==
    /\ Len(issued) > 0 => issued[1] = 0
    /\ \A i, j \in 1..Len(issued) : i < j => issued[i] < issued[j]
    /\ \A i, j \in 1..Len(issued) : i # j => issued[i] # issued[j]
    /\ \A k \in 1..Len(objects) :
          Cardinality({i \in 1..Len(issued) : issued[i] = objects[k].id}) = 1
    /\ \A i, j \in 1..Len(objects) : i # j => objects[i].id # objects[j].id

\* C1 witness: an object was added after another had been removed.
C1_Witness ==
    /\ call.op = "add_object_with_model_at_pos"
    /\ Len(issued) >= 3
    /\ Len(objects) < Len(issued)

\* C3: every Object in the list has a physics_body for which get_object
\* returns a body, and draw_all has never unwrapped a None.
C3_BodiesLive ==
    /\ ~panicked
    /\ \A k \in 1..Len(objects) : GetObject(physics, objects[k].physics_body) # None

\* C3 witness: a frame was drawn with live objects after a removal and an update.
C3_Witness ==
    /\ call.op = "next_frame"
    /\ Len(objects) >= 2
    /\ Len(objects) < Len(issued)
    /\ updates >= 1

\* The positions in the list of the Objects whose id is id.
Matching(id) == {k \in 1..Len(objects) : objects[k].id = id}

\* The list without its k-th entry.
Without(objs, k) ==
    [j \in 1..(Len(objs) - 1) |-> IF j < k THEN objs[j] ELSE objs[j + 1]]

\* C4: remove_object(id) removes the one entry whose id matches and keeps
\* every other object in its order; with no such entry it changes nothing; the
\* id counter, the bodies of the physics engine and all other state are left
\* as they were.
C4_RemoveFrame ==
    [][call'.op = "remove_object" =>
          /\ Cardinality(Matching(call'.arg)) <= 1
          /\ Matching(call'.arg) = {} => objects' = objects
          /\ \A k \in Matching(call'.arg) : objects' = Without(objects, k)
          /\ object_uid_counter' = object_uid_counter
          /\ physics' = physics
          /\ UNCHANGED <<dt_accum, inputs, rendererVars, panicked>>]_vars

\* C4 witness: remove_object(1) was called and the objects 0 and 2 that
\* surrounded object 1 are left, in their order.
C4_Witness ==
    /\ call.op = "remove_object"
    /\ call.arg = 1
    /\ Len(objects) = 2
    /\ objects[1].id = 0
    /\ objects[2].id = 2

\* C2: the k-th body added carries id k, the ids are pairwise distinct,
\* get_object(k) is that body, and a lookup with an id at or past the number
\* of bodies is None.
C2_BodyIds ==
    /\ \A k \in 0..(Len(physics) - 1) :
          /\ physics[k + 1].id = k
          /\ GetObject(physics, k) = Some(physics[k + 1])
    /\ \A i, j \in 1..Len(physics) : i # j => physics[i].id # physics[j].id
    /\ \A id \in Len(physics)..(Len(physics) + MaxBodies) : GetObject(physics, id) = None

\* C2 witness: two bodies, one of them added after an update.
C2_Witness ==
    /\ call.op = "physics.add_object"
    /\ Len(physics) >= 2
    /\ updates >= 1

\* Whether body k is where exact arithmetic puts it: the position its motion
\* was set to plus its velocity times the sum of the dt since.
Linear(k) ==
    \A a \in 1..2 :
        physics[k].pose.position[a] * One =
            motion0[k].position[a] * One
                + physics[k].dynamics.velocity[a] * (elapsed - motion0[k].since)

\* Whether the bodies after are the bodies before, each moved by the f32
\* product of its velocity and dt.as_secs_f32() and otherwise as it was.
MovedBy(before, after, dt) ==
    /\ Len(after) = Len(before)
    /\ \A k \in 1..Len(before) :
          /\ \A a \in 1..2 :
                after[k].pose.position[a] =
                    FAdd(before[k].pose.position[a],
                         FMul(before[k].dynamics.velocity[a], AsSecsF32(dt)))
          /\ after[k].dynamics = before[k].dynamics
          /\ after[k].id = before[k].id
          /\ after[k].pose.orientation = before[k].pose.orientation
          /\ after[k].circle = before[k].circle

\* C5 as stated: after any updates every body has moved by exactly its
\* velocity times the sum of the dt.
C5_AsStated == \A k \in 1..Len(physics) : Linear(k)

\* C5, amended: update(dt) sets each position to the f32 sum of the position
\* and the f32 product of velocity and dt.as_secs_f32(), and leaves velocity,
\* id, orientation, footprint and the number of bodies alone; a body has moved
\* by exactly velocity times the sum of the dt when no update since has
\* rounded.
C5_Integration ==
    /\ [][call'.op = "physics.update" /\ updates' = updates + 1 =>
            MovedBy(physics, physics', call'.arg)]_vars
    /\ [](\A k \in 1..Len(physics) : motion0[k].exact => Linear(k))

\* C5 witness: the body set to (25, 25) with velocity (0, 1) is at (25, 35)
\* after 10 seconds of updates, none of which rounded.
C5_Witness ==
    \E k \in 1..Len(physics) :
        /\ motion0[k].position = <<F32(25), F32(25)>>
        /\ physics[k].dynamics.velocity = <<0, One>>
        /\ elapsed - motion0[k].since = 10 * One
        /\ motion0[k].exact
        /\ physics[k].pose.position = <<F32(25), F32(35)>>

\* History: the region the update recorded in h leaves of region.
Step(region, h) ==
    IF h.active THEN NavRegion(region, h.delta, h.zs) ELSE region

\* History: whether the update recorded in h, run on region, rounds nowhere.
StepExact(region, h) ==
    h.active => NavExact(region, h.delta, h.zs)

\* The last two calls were updates with the scroll speeds zero, the second
\* with the opposite zoom speed and the same duration, run back to back.
ZoomedThereAndBack ==
    /\ Len(hist) = 2
    /\ hist[1].speed = <<0, 0>> /\ hist[2].speed = <<0, 0>>
    /\ hist[2].zoom = -hist[1].zoom
    /\ hist[2].dt = hist[1].dt
    /\ hist[2].before = Step(hist[1].before, hist[1])
    /\ view_region = Step(hist[2].before, hist[2])

\* C6 as stated: zooming with speed z for t and then with -z for t returns
\* the view region to its two corners.
C6_AsStated ==
    ZoomedThereAndBack => view_region = hist[1].before

\* C6, amended: zooming with speed z for t and then with -z for t returns the
\* view region to its two corners when no f32 operation of the two updates
\* rounds.
C6_RoundTrip ==
    ZoomedThereAndBack
        /\ StepExact(hist[1].before, hist[1])
        /\ StepExact(hist[2].before, hist[2])
    => view_region = hist[1].before

\* C6 witness: a zoom that changed the region and a zoom back that restored
\* it, neither of them rounding.
C6_Witness ==
    /\ ZoomedThereAndBack
    /\ hist[1].zoom # 0
    /\ hist[1].dt # 0
    /\ StepExact(hist[1].before, hist[1])
    /\ StepExact(hist[2].before, hist[2])
    /\ hist[2].before # hist[1].before
    /\ view_region = hist[1].before

\* The last two calls were updates with the zoom speed zero, run back to back.
PannedTwice ==
    /\ Len(hist) = 2
    /\ hist[1].zoom = 0 /\ hist[2].zoom = 0
    /\ hist[2].before = Step(hist[1].before, hist[1])
    /\ view_region = Step(hist[2].before, hist[2])

\* The record of the one update whose scroll delta is the sum of those of h1
\* and h2.
SumOf(h1, h2) ==
    [h1 EXCEPT !.active = h1.active \/ h2.active,
               !.delta = <<FAdd(h1.delta[1], h2.delta[1]),
                           FAdd(h1.delta[2], h2.delta[2])>>]

\* Whether the region is what one update by the sum of the two deltas leaves,
\* and what the two updates leave in the other order.
PanAdditive ==
    /\ view_region = Step(hist[1].before, SumOf(hist[1], hist[2]))
    /\ view_region = Step(Step(hist[1].before, hist[2]), hist[1])

\* C7 as stated: two updates that scroll by d1 and d2 leave the region one
\* update scrolling by d1 + d2 leaves, in either order.
C7_AsStated ==
    PannedTwice => PanAdditive

\* C7, amended: two updates that scroll by d1 and d2 leave the region one
\* update scrolling by d1 + d2 leaves, in either order, when d1 + d2 is an f32
\* and no f32 operation of the two updates, in either order, rounds.
C7_PanAdditive ==
    PannedTwice
        /\ AddExact(hist[1].delta[1], hist[2].delta[1])
        /\ AddExact(hist[1].delta[2], hist[2].delta[2])
        /\ StepExact(hist[1].before, hist[1])
        /\ StepExact(hist[2].before, hist[2])
        /\ StepExact(hist[1].before, hist[2])
        /\ StepExact(Step(hist[1].before, hist[2]), hist[1])
    => PanAdditive

\* C7 witness: two scrolls by different non-zero deltas, nothing rounding.
C7_Witness ==
    /\ PannedTwice
    /\ hist[1].active /\ hist[2].active
    /\ hist[1].delta # <<0, 0>> /\ hist[2].delta # <<0, 0>>
    /\ hist[1].delta # hist[2].delta
    /\ AddExact(hist[1].delta[1], hist[2].delta[1])
    /\ AddExact(hist[1].delta[2], hist[2].delta[2])
    /\ StepExact(hist[1].before, hist[1])
    /\ StepExact(hist[2].before, hist[2])
    /\ StepExact(hist[1].before, hist[2])
    /\ StepExact(Step(hist[1].before, hist[2]), hist[1])
    /\ PanAdditive

\* C10: update(dt) moves every body by its velocity times dt whatever the
\* inputs are, and leaves the view region and the transform as they were
\* when both scroll speeds and the zoom speed are zero.
C10_UpdateForwards ==
    [][call'.op = "update" /\ updates' = updates + 1 =>
          /\ MovedBy(physics, physics', call'.arg)
          /\ ~InputActive(inputs) => view_region' = view_region /\ matrix' = matrix]_vars

\* C10 witness: an update with a key held moved the region, and the next
\* update, with all speeds zero, left it and moved the first circle.
C10_Witness ==
    /\ call.op = "update"
    /\ call.arg > 0
    /\ Len(hist) = 2
    /\ hist[1].active /\ hist[1].before # hist[2].before
    /\ ~hist[2].active /\ view_region = hist[2].before
    /\ physics[2].pose.position[2] > MainPositions[2][2]


\* The speed a key sets when it is pressed.
KeySpeed(key) == IF key \in {"Kp6", "Kp8", "Kp9"} THEN One ELSE -One

\* Whether the speed the keys of ks control is that of one of them that is
\* held, when one is held.
Follows(speed, ks) ==
    ks \cap held # {} => \E k \in ks \cap held : speed = KeySpeed(k)

\* C8: while a directional key is held the scroll speed component it controls
\* is non-zero in the direction of a held key of that component, and while a
\* zoom key is held the zoom speed is +1 (Kp9) or -1 (Kp7), that of a held
\* zoom key; a component is 0 only when no key controlling it is held.
C8_AsStated ==
    /\ Follows(inputs.view_region_scroll_speed[1], {"Kp4", "Kp6"})
    /\ Follows(inputs.view_region_scroll_speed[2], {"Kp8", "Kp2"})
    /\ Follows(inputs.view_region_zoom_speed, {"Kp9", "Kp7"})

\* C9: the transform on the surface is the one set_physics_region builds from
\* the current view region and the current pixel dimensions of the surface.
C9_AsStated ==
    matrix = RegionMatrix(surface_dims, view_region[1], view_region[2])

\* Whether p1 is below and left of p2.
NonDegenerate(region) ==
    /\ region[1][1] < region[2][1]
    /\ region[1][2] < region[2][2]

\* C11: from main's region (0,0)-(100,100), every sequence of updates and key
\* events of the frame loop keeps view_region[1] strictly below and left of
\* view_region[2], so the width and the height set_physics_region divides by
\* are never zero.
C11_AsStated ==
    /\ NonDegenerate(view_region)
    /\ \A k \in 1..Len(matrix) :
          matrix[k].op = "scale" => matrix[k].x[2] # 0 /\ matrix[k].y[2] # 0

\* Whether the last call was add_object_with_model or
\* add_object_with_model_at_pos (the former is a call of the latter).
Added == call'.op = "add_object_with_model_at_pos" /\ Len(issued') = Len(issued) + 1

\* C12: every add_object_with_model* call creates exactly one body and one
\* Object; the number of bodies equals the id counter and the number of
\* objects ever added, is at least the number of live objects and never
\* decreases; no two live Objects refer to the same body.
C12_BodyCount ==
    /\ [](/\ Len(physics) = object_uid_counter
          /\ Len(physics) = Len(issued)
          /\ Len(objects) <= Len(physics)
          /\ \A i, j \in 1..Len(objects) :
                i # j => objects[i].physics_body # objects[j].physics_body)
    /\ [][Len(physics') >= Len(physics)]_vars
    /\ [][Added => /\ Len(physics') = Len(physics) + 1
                   /\ Len(objects') = Len(objects) + 1
                   /\ objects'[Len(objects')].physics_body = Len(physics)]_vars

\* C12 witness: an object was added after a removal and an update, so that
\* there are more bodies than live objects.
C12_Witness ==
    /\ call.op = "add_object_with_model_at_pos"
    /\ Len(physics) >= 3
    /\ Len(objects) = Len(physics) - 1
    /\ Len(objects) >= 2
    /\ updates >= 1
=============================================================================
